---- MODULE Spec2Model ----
(***************************************************************************)
(* Vote sessions of the dBot moderation cogs.                              *)
(*                                                                         *)
(*  cog = "toxic"     models src/toxic/toxic.py     (class Toxic)          *)
(*  cog = "toxicity"  models src/toxicity/toxic.py  (class Toxicity)       *)
(*                                                                         *)
(* Every coroutine is cut at its awaits: one action is the code that runs  *)
(* between two suspension points of the asyncio event loop.  The Discord   *)
(* side (the vote message and the reactions on it) is part of the state.   *)
(* src/toxic/toxic.py lines 393 and 402 carry a `return` that lost one     *)
(* indentation level; the model reads them as the body of the `if` above.  *)
(***************************************************************************)
EXTENDS Integers, Sequences, FiniteSets, TLC

\* ---- bounds ----
NumUsers == 2       \* members of the guild that issue commands and react
MaxVotes == 2       \* invocations of the vote command
MaxReacts == 2      \* reactions added by users
MaxCancels == 2     \* invocations of the cancel command
MaxNeeded == 2      \* largest votes_needed the settings command is given
MaxEvents == 3      \* commands, reactions, failed external calls, periodic pick-ups
MaxCleanups == 1    \* expired votes the periodic task of Toxicity picks up
MaxPresses == 3     \* presses of the vote button
MaxCommands == 2    \* invocations of the button variant's vote command
MaxJoins == 2       \* runs of on_member_join
MaxClock == 2       \* seconds that pass

\* ---- program constants ----
MinVotesNeeded == 1
MaxVotesNeeded == 50
MinVoteDuration == 30
MaxVoteDuration == 86400
MinViewVotes == 2       \* commands.Range[int, 2, None] of the votes_needed setting

Users == 1..NumUsers
Anonymous == 0          \* the text "Anonymous" where an embed would name a member
GuildOwner == 1         \* ctx.guild.owner
Mod == NumUsers + 1     \* a member with guild_permissions.kick_members
Moderators == {Mod}
Me == NumUsers + 2      \* guild.me, the bot's own account
OtherBot == NumUsers + 3    \* another bot account of the guild
Bots == {Me, OtherBot}  \* the accounts with user.bot
Humans == Users \cup Moderators           \* who may send a command
Members == Humans \cup {Me}               \* whom a vote command may name
Accounts == Humans \cup Bots              \* who may react to a message
Guilds == {"g1"}
Sids == 1..MaxVotes
Emojis == {"yes", "no", "abstain"}       \* the vote emojis of a session
AllEmojis == Emojis \cup {"other"}        \* what a reaction may be
Cogs == {"toxic", "toxicity"}
TimerIds == {<<"T", k>> : k \in Sids}
EventIds == {<<"E", i>> : i \in 1..MaxReacts}
CleanupIds == {<<"C", n>> : n \in 1..MaxCleanups}
TaskIds == TimerIds \cup EventIds \cup CleanupIds
CancelIds == 1..MaxCancels

VARIABLES
    cog,            \* which cog is loaded
    config,         \* Config.guild(g): vote_duration, votes_needed, ban_mode, anonvote
    active_votes,   \* self.active_votes[guild][member_id] -> vote_data (0 = no entry)
    vote_data,      \* the vote_data dict objects, by identity
    message,        \* the vote message of each session: "none", "live", "deleted"
    msg_guild,      \* the guild each vote message was sent in
    reactions,      \* the users' reactions on each vote message
    inv,            \* the invocations of the vote command
    task,           \* the timer tasks and the reaction handlers (with the tasks they spawn)
    cancels,        \* the invocations of the cancel command
    hist,           \* history of each session: kick/ban calls, result embeds, tally read, ...
    last,           \* the last settings command and whether the cog accepted it
    events,         \* how many inputs (commands, reactions, pick-ups) and faults so far
    _is_loaded,     \* Toxic._is_loaded: the cog is loaded
    clock,          \* datetime.now(), in seconds
    view,           \* the ToxicityView of the button variant: votes, calls made, ...
    commands,       \* the invocations of the button variant's vote command
    active_channels,\* JoinRole.active_channels: member id -> temporary channel (0 = no entry)
    joins           \* the runs of JoinRole.on_member_join

\* the state of the button variant and of the enrollment cog
button_vars == <<view, commands>>
join_vars == <<active_channels, joins>>

\* the state of the reaction cogs
toxic_vars == <<cog, config, active_votes, vote_data, message, msg_guild, reactions, inv, task,
                cancels, hist, last, events, _is_loaded, clock>>

vars == <<toxic_vars, button_vars, join_vars>>

NoData == [guild |-> "g1", target |-> 0, initiator |-> 0, votes_needed |-> 0,
           ban_mode |-> FALSE, anonvote |-> FALSE, voters |-> {}, processed |-> FALSE,
           vote_passed |-> "unset", start_time |-> 0, vote_duration |-> 0]
NoInv == [pc |-> "idle", guild |-> "g1", author |-> 0, member |-> 0,
          votes_needed |-> 0, ban_mode |-> FALSE, anonvote |-> FALSE, vote_duration |-> 0]
NoTask == [pc |-> "none", guild |-> "g1", member |-> 0, vd |-> 0,
           user |-> 0, emoji |-> "yes", msg |-> 0, early |-> FALSE, res |-> "none"]
NoCancel == [pc |-> "idle", guild |-> "g1", author |-> 0, member |-> 0, vd |-> 0]
NoHist == [punished |-> <<>>,     \* the kick/ban calls issued
           summaries |-> <<>>,    \* the "Vote Results" embeds written to the vote message
           counts |-> <<>>,       \* what each resolution read and decided
           cancelled |-> FALSE,   \* cancel_vote passed its checks
           reported |-> FALSE,    \* cancel_vote has sent "Vote for ... cancelled"
           resolver |-> <<>>,     \* the tasks that started a resolution
           elapsed |-> FALSE,     \* the session's own timer has slept vote_duration
           early |-> FALSE,       \* on_reaction_add saw the passing condition
           casts |-> <<>>,        \* the reactions the users added, in order
           shown |-> {}]          \* who each embed sent to the channel names as initiator

\* the settings of a guild that has changed none
default_guild == [vote_duration |-> 300, votes_needed |-> 3, ban_mode |-> FALSE,
                  anonvote |-> FALSE]

NoCommand == [cmd |-> "none", arg |-> 0, accepted |-> FALSE]
Command(cmd, arg, accepted) == [cmd |-> cmd, arg |-> arg, accepted |-> accepted]

Finished(r, how) == [NoTask EXCEPT !.pc = how]

\* ---- the button variant (src/toxicity/main.py, src/toxicity/views.py) ----

CommandIds == 1..MaxCommands
ViewNeeded == MinViewVotes..(MaxNeeded + 1)     \* what the "votes_needed" setting may hold
Actions == {"kick", "ban"}                      \* what the "action" setting may hold

\* no view: the vote command has not constructed one
NoView == [state |-> "none", invoker |-> 0, target |-> 0, votes_needed |-> 0,
           action |-> "kick", votes |-> {},
           presses |-> <<>>,      \* the button presses delivered, with how each one ended
           punished |-> <<>>,     \* the kick/ban calls issued
           outcome |-> "none"]    \* how on_timeout ended
\* an invocation of the vote command that has not been sent
NoRun == [pc |-> "idle", author |-> 0, user |-> 0, ignore_hierarchy |-> FALSE]

\* ---- the enrollment cog (src/autojoinmod/joinrole.py) ----

JoinIds == 1..MaxJoins
Joiners == 1..NumUsers                          \* the members who may join the guild
NoJoin == [pc |-> "idle", member |-> 0,
           temp_channel |-> 0,        \* 0 = None
           exit |-> "none",           \* the way the run left on_member_join
           on_timeout |-> "none",     \* on_timeout of the run's PurposeSelectionView
           rejoin |-> FALSE]          \* an earlier enrollment of the member was over at the check

Init ==
    /\ cog \in Cogs
    /\ config \in [Guilds -> [vote_duration : {default_guild.vote_duration},
                              votes_needed : MinVotesNeeded..MaxNeeded,
                              ban_mode : BOOLEAN,
                              anonvote : {default_guild.anonvote}]]
    /\ active_votes = [g \in Guilds |-> [m \in Members |-> 0]]
    /\ vote_data = [s \in Sids |-> NoData]
    /\ message = [s \in Sids |-> "none"]
    /\ msg_guild = [s \in Sids |-> "g1"]
    /\ reactions = [s \in Sids |-> [u \in Accounts |-> {}]]
    /\ inv = [s \in Sids |-> NoInv]
    /\ task = [t \in TaskIds |-> NoTask]
    /\ cancels = [c \in CancelIds |-> NoCancel]
    /\ hist = [s \in Sids |-> NoHist]
    /\ last = NoCommand
    /\ events = [inputs |-> 0, faults |-> 0]
    /\ _is_loaded = TRUE
    /\ clock = 0
    /\ view = NoView
    /\ commands = [c \in CommandIds |-> NoRun]
    /\ active_channels = [m \in Joiners |-> 0]
    /\ joins = [j \in JoinIds |-> NoJoin]

\* one more command, reaction or periodic pick-up
Event ==
    /\ events.inputs + events.faults < MaxEvents
    /\ events' = [events EXCEPT !.inputs = @ + 1]

\* one more failed external call (or a vote message deleted under the bot)
Fault ==
    /\ events.inputs + events.faults < MaxEvents
    /\ events' = [events EXCEPT !.faults = @ + 1]

\* ---- pure helpers ----

\* a variant of the passing condition that lets a tie pass
VotePassed_tie(yes, no, needed) == yes >= needed /\ yes >= no

\* yes_votes >= votes_needed and yes_votes > no_votes
VotePassed(yes, no, needed) == yes >= needed /\ yes > no

\* reaction.count - 1: the users that reacted with the emoji, the bot's own seed excluded
CountVotes(s, e) == Cardinality({u \in Accounts : e \in reactions[s][u]})

Count(yes, no, abstain, passed) ==
    [yes |-> yes, no |-> no, abstain |-> abstain, passed |-> passed]

\* "ban" if ban_mode else "kick"
ActionKind(ban_mode) == IF ban_mode THEN "ban" ELSE "kick"

\* del self.active_votes[guild.id][member_id]
Delete_guild(g, m) == [active_votes EXCEPT ![g] = [x \in Members |-> 0]]

Delete(g, m) == [active_votes EXCEPT ![g][m] = 0]

\* the key whose entry holds the vote message msg (0 = none)
FindVote(g, msg) ==
    IF \E m \in Members : active_votes[g][m] = msg
    THEN CHOOSE m \in Members : active_votes[g][m] = msg
    ELSE 0

\* the listeners of earlier reaction events have started: events are dispatched in order
InOrder(t) == \A j \in 1..MaxReacts : j < t[2] => task[<<"E", j>>].pc # "ev"

\* the session is registered and no resolution or cancellation of it has begun
IsOpen(s) ==
    /\ \E g \in Guilds, m \in Members : active_votes[g][m] = s
    /\ ~vote_data[s].processed
    /\ hist[s].resolver = <<>>
    /\ ~hist[s].cancelled

\* variants of the two membership tests that never find an entry
HasActiveVote_never(g, member_id) == FALSE

AlreadyVoted_never(s, user) == FALSE

\* user.bot
IsBot(u) == u \in Bots

\* str(reaction.emoji) in the session's vote emojis
ValidEmoji(e) == e \in Emojis

\* the position of member.top_role: the bot's role above the moderators' role above
\* the role every other member has
TopRole(m) == IF m \in Bots THEN 3 ELSE IF m \in Moderators THEN 2 ELSE 1

\* _has_matching_roles: the two members have the same roles
_has_matching_roles(a, b) == TopRole(a) = TopRole(b)

\* the target checks of the vote command: self, the guild owner, a role that is not
\* below the author's, roles that do not match
InvalidTarget(author, member) ==
    \/ member = author
    \/ member = GuildOwner
    \/ TopRole(member) >= TopRole(author) /\ author # GuildOwner
    \/ /\ ~_has_matching_roles(author, member)
       /\ author # GuildOwner
       /\ author \notin Moderators

\* a variant in which a running vote uses the guild's current settings
SessionConfig_live(s) == config[vote_data[s].guild]

\* vote_data["config"]: the settings stored with the session
SessionConfig(s) ==
    [votes_needed |-> vote_data[s].votes_needed, ban_mode |-> vote_data[s].ban_mode,
     anonvote |-> vote_data[s].anonvote]

\* a variant of the first checks of cancel_vote without the processed test
CancelRefused_missing(g, member_id) == active_votes[g][member_id] = 0

\* member.id not in guild_votes, or vote_data.get("processed", False)
CancelRefused(g, member_id) ==
    \/ active_votes[g][member_id] = 0
    \/ vote_data[active_votes[g][member_id]].processed

\* a variant of the permission check of cancel_vote that lets everyone pass
MayCancel_anyone(author, s) == TRUE

\* ctx.author is the initiator, has kick_members, or is the guild owner
MayCancel(author, s) ==
    \/ author = vote_data[s].initiator
    \/ author \in Moderators
    \/ author = GuildOwner

\* a variant of the processed test that never sees the flag
Concluded_never(s) == FALSE

\* vote_data.get("processed", False)
Concluded(s) == vote_data[s].processed

\* member.id in guild_votes
HasActiveVote(g, member_id) == active_votes[g][member_id] # 0

\* user.id in vote_data["voters"]
AlreadyVoted(s, user) == user \in vote_data[s].voters

\* ---- settings commands ----

set_votes_required(g, count) ==
    /\ Event
    /\ last' = Command("votes", count, MinVotesNeeded <= count /\ count <= MaxVotesNeeded)
    /\ IF MinVotesNeeded <= count /\ count <= MaxVotesNeeded
       THEN config' = [config EXCEPT ![g].votes_needed = count]
       ELSE UNCHANGED config
    /\ UNCHANGED <<clock, button_vars, join_vars, _is_loaded, cog, active_votes, vote_data, message, msg_guild, reactions, inv,
                   task, cancels, hist>>

set_punishment_mode(g, mode) ==
    /\ mode \in {"kick", "ban"}
    /\ Event
    /\ last' = Command("mode", mode, TRUE)
    /\ config' = [config EXCEPT ![g].ban_mode = (mode = "ban")]
    /\ UNCHANGED <<clock, button_vars, join_vars, _is_loaded, cog, active_votes, vote_data, message, msg_guild, reactions, inv,
                   task, cancels, hist>>

\* ---- toxic config duration ----

\* the characters of the time argument, as one-character strings
Digits == {"0", "1", "2", "3", "4", "5", "6", "7", "8", "9"}

\* the digit a character stands for
DigitValue(c) ==
    CASE c = "0" -> 0 [] c = "1" -> 1 [] c = "2" -> 2 [] c = "3" -> 3 [] c = "4" -> 4
      [] c = "5" -> 5 [] c = "6" -> 6 [] c = "7" -> 7 [] c = "8" -> 8 [] c = "9" -> 9

\* str.isdigit(): not empty and digits only
isdigit(w) == Len(w) > 0 /\ \A i \in 1..Len(w) : w[i] \in Digits

\* the number a string of digits reads as
RECURSIVE DigitsValue(_)
DigitsValue(w) ==
    IF w = <<>> THEN 0
    ELSE 10 * DigitsValue(SubSeq(w, 1, Len(w) - 1)) + DigitValue(w[Len(w)])

\* int(w) does not raise ValueError: digits, after a minus sign or not
IsIntLiteral(w) ==
    \/ isdigit(w)
    \/ Len(w) > 1 /\ w[1] = "-" /\ isdigit(Tail(w))

\* int(w)
int(w) == IF w[1] = "-" THEN 0 - DigitsValue(Tail(w)) ELSE DigitsValue(w)

\* the seconds the time argument reads as (ok = FALSE: "Invalid time format")
ParseTime(time) ==
    LET body == SubSeq(time, 1, Len(time) - 1)
        unit == CASE time[Len(time)] = "s" -> 1
                  [] time[Len(time)] = "m" -> 60
                  [] time[Len(time)] = "h" -> 3600
                  [] OTHER -> 0
    IN  IF unit # 0
        THEN IF IsIntLiteral(body)
             THEN [ok |-> TRUE, seconds |-> int(body) * unit]
             ELSE [ok |-> FALSE, seconds |-> 0]
        ELSE IF isdigit(time)
             THEN [ok |-> TRUE, seconds |-> int(time)]
             ELSE [ok |-> FALSE, seconds |-> 0]

\* a variant that stores whatever number the argument reads as
DurationInRange_any(seconds) == TRUE

\* 30 <= seconds <= 86400
DurationInRange(seconds) == MinVoteDuration <= seconds /\ seconds <= MaxVoteDuration

set_vote_duration(g, time) ==
    /\ cog = "toxic"
    /\ Event
    /\ last' = Command("duration", time, ParseTime(time).ok /\ DurationInRange(ParseTime(time).seconds))
    /\ IF ParseTime(time).ok /\ DurationInRange(ParseTime(time).seconds)
       THEN config' = [config EXCEPT ![g].vote_duration = ParseTime(time).seconds]
       ELSE UNCHANGED config
    /\ UNCHANGED <<clock, button_vars, join_vars, _is_loaded, cog, active_votes, vote_data, message, msg_guild, reactions, inv,
                   task, cancels, hist>>

\* ---- toxic config preset, toxic config reset ----

presets ==
    [strict |-> [vote_duration |-> 180, votes_needed |-> 5, ban_mode |-> TRUE],
     moderate |-> [vote_duration |-> 300, votes_needed |-> 3, ban_mode |-> FALSE],
     lenient |-> [vote_duration |-> 600, votes_needed |-> 2, ban_mode |-> FALSE],
     small |-> [vote_duration |-> 300, votes_needed |-> 2, ban_mode |-> FALSE],
     large |-> [vote_duration |-> 240, votes_needed |-> 7, ban_mode |-> FALSE]]

\* the preset is written when the name is known and the author confirms with the
\* check mark (answer: "yes", "no", or "timeout" after 30 seconds); the three
\* settings are written one after the other
apply_config_preset(g, preset_name, answer) ==
    /\ cog = "toxic"
    /\ Event
    /\ last' = Command("preset", preset_name, preset_name \in DOMAIN presets /\ answer = "yes")
    /\ IF preset_name \in DOMAIN presets /\ answer = "yes"
       THEN config' = [config EXCEPT
                          ![g].vote_duration = presets[preset_name].vote_duration,
                          ![g].votes_needed = presets[preset_name].votes_needed,
                          ![g].ban_mode = presets[preset_name].ban_mode]
       ELSE UNCHANGED config
    /\ UNCHANGED <<clock, button_vars, join_vars, _is_loaded, cog, active_votes, vote_data, message, msg_guild, reactions, inv,
                   task, cancels, hist>>

\* config.guild(ctx.guild).clear() after the author confirms
reset_toxic_config(g, answer) ==
    /\ cog = "toxic"
    /\ Event
    /\ last' = Command("reset", answer, answer = "yes")
    /\ IF answer = "yes"
       THEN config' = [config EXCEPT ![g] = default_guild]
       ELSE UNCHANGED config
    /\ UNCHANGED <<clock, button_vars, join_vars, _is_loaded, cog, active_votes, vote_data, message, msg_guild, reactions, inv,
                   task, cancels, hist>>

\* toxic config anonvote [state]
toggle_anonymous_voting(g, state) ==
    /\ cog = "toxic"
    /\ Event
    /\ last' = Command("anonvote", state, state \in {"", "on", "off"})
    /\ IF state \in {"", "on", "off"}
       THEN config' = [config EXCEPT ![g].anonvote =
                          IF state = "" THEN ~@ ELSE state = "on"]
       ELSE UNCHANGED config
    /\ UNCHANGED <<clock, button_vars, join_vars, _is_loaded, cog, active_votes, vote_data, message, msg_guild, reactions, inv,
                   task, cancels, hist>>

\* the "Initiated by" line of the vote embed
VoteEmbed(author, cfg) ==
    [embed |-> "vote", by |-> IF cfg.anonvote THEN Anonymous ELSE author]

\* the "Initiator" field of the result embed
ResultEmbed(s) ==
    [embed |-> "result",
     by |-> IF ~SessionConfig(s).anonvote THEN vote_data[s].initiator ELSE Anonymous]

\* the "By:" line of a vote in the embed of toxic list
ListEmbed(s) == [embed |-> "list", by |-> vote_data[s].initiator]

\* the votes of the guild that toxic list keeps: those that are not processed
Listed_all(g) == {s \in Sids : \E m \in Members : active_votes[g][m] = s}

Listed(g) == {s \in Sids : (\E m \in Members : active_votes[g][m] = s) /\ ~vote_data[s].processed}

\* start_time + timedelta(seconds=vote_data["config"]["vote_duration"]) - datetime.now()
TimeLeft(s) == vote_data[s].start_time + vote_data[s].vote_duration - clock

\* toxic list: an embed with a field for every vote that is not processed
list_active_votes(g) ==
    /\ cog = "toxic"
    /\ Event
    /\ hist' = [s \in Sids |->
                  IF s \in Listed(g)
                  THEN [hist[s] EXCEPT !.shown = @ \cup {ListEmbed(s)}]
                  ELSE hist[s]]
    /\ last' = Command("list", {[vote |-> s, time_left |-> TimeLeft(s)] : s \in Listed(g)}, TRUE)
    /\ UNCHANGED <<clock, button_vars, join_vars, _is_loaded, cog, config, active_votes, vote_data, message, msg_guild, reactions,
                   inv, task, cancels>>

\* ---- Toxic.vote_member ----

\* up to the sent vote message: the target check, the check for an existing vote,
\* the settings snapshot, ctx.send
vote_member(k, g, author, member) ==
    /\ cog = "toxic"
    /\ inv[k].pc = "idle"
    /\ \A j \in Sids : j < k => inv[j].pc # "idle"
    /\ Event
    /\ IF ~_is_loaded \/ InvalidTarget(author, member) \/ HasActiveVote(g, member)
       THEN /\ inv' = [inv EXCEPT ![k] = [NoInv EXCEPT !.pc = "rejected", !.guild = g,
                                           !.author = author, !.member = member]]
            /\ UNCHANGED <<message, msg_guild, hist>>
       ELSE /\ inv' = [inv EXCEPT ![k] =
                         [pc |-> "sent", guild |-> g, author |-> author, member |-> member,
                          votes_needed |-> config[g].votes_needed,
                          ban_mode |-> config[g].ban_mode,
                          anonvote |-> config[g].anonvote,
                          vote_duration |-> config[g].vote_duration]]
            /\ message' = [message EXCEPT ![k] = "live"]
            /\ msg_guild' = [msg_guild EXCEPT ![k] = g]
            /\ hist' = [hist EXCEPT ![k].shown = @ \cup {VoteEmbed(author, config[g])}]
    /\ UNCHANGED <<clock, button_vars, join_vars, _is_loaded, cog, last, config, active_votes, vote_data, reactions, task, cancels>>

\* after the reactions are seeded: the session is stored and its timer task sleeps
vote_member_store(k) ==
    /\ cog = "toxic"
    /\ inv[k].pc = "sent"
    /\ inv' = [inv EXCEPT ![k] = [NoInv EXCEPT !.pc = "done"]]
    /\ vote_data' = [vote_data EXCEPT ![k] =
                       [NoData EXCEPT !.guild = inv[k].guild, !.target = inv[k].member,
                                      !.initiator = inv[k].author,
                                      !.votes_needed = inv[k].votes_needed,
                                      !.ban_mode = inv[k].ban_mode,
                                      !.anonvote = inv[k].anonvote,
                                      !.vote_duration = inv[k].vote_duration,
                                      !.start_time = clock]]
    /\ active_votes' = [active_votes EXCEPT ![inv[k].guild][inv[k].member] = k]
    /\ task' = [task EXCEPT ![<<"T", k>>] =
                  [NoTask EXCEPT !.pc = "t_sleep", !.guild = inv[k].guild,
                                 !.member = inv[k].member]]
    /\ UNCHANGED <<clock, button_vars, join_vars, _is_loaded, cog, last, config, message, msg_guild, reactions, cancels, hist, events>>

\* ---- the users of the guild react to a vote message (Discord side) ----

user_adds_reaction(i, s, u, e) ==
    /\ task[<<"E", i>>].pc = "none"
    /\ \A j \in 1..MaxReacts : j < i => task[<<"E", j>>].pc # "none"
    /\ message[s] = "live"
    /\ e \notin reactions[s][u]
    /\ Event
    /\ reactions' = [reactions EXCEPT ![s][u] = @ \cup {e}]
    /\ task' = [task EXCEPT ![<<"E", i>>] =
                  [NoTask EXCEPT !.pc = "ev", !.guild = msg_guild[s], !.user = u,
                                 !.emoji = e, !.msg = s]]
    /\ hist' = [hist EXCEPT ![s].casts = Append(@, [user |-> u, emoji |-> e,
                                                      open |-> IsOpen(s),
                                                      late |-> vote_data[s].processed])]
    /\ UNCHANGED <<clock, button_vars, join_vars, _is_loaded, cog, last, config, active_votes, vote_data, message, msg_guild, inv, cancels>>

\* a moderator deletes the vote message
message_deleted(s) ==
    /\ message[s] = "live"
    /\ Fault
    /\ message' = [message EXCEPT ![s] = "deleted"]
    /\ UNCHANGED <<clock, button_vars, join_vars, _is_loaded, cog, last, config, active_votes, vote_data, msg_guild, reactions, inv, task,
                   cancels, hist>>

\* ---- Toxic.on_reaction_add ----

\* up to the first await: ignore a bot, find the vote, refuse an emoji that is not a
\* vote emoji and a second ballot, record the voter
on_reaction_add(t) ==
    LET r == task[t]
        m == FindVote(r.guild, r.msg)
    IN  /\ cog = "toxic"
        /\ r.pc = "ev"
        /\ InOrder(t)
        /\ IF IsBot(r.user) \/ ~_is_loaded \/ m = 0 \/ Concluded(r.msg)
           THEN /\ task' = [task EXCEPT ![t] = Finished(r, "done")]
                /\ UNCHANGED vote_data
           ELSE IF ~ValidEmoji(r.emoji) \/ AlreadyVoted(r.msg, r.user)
           THEN /\ task' = [task EXCEPT ![t].pc = "rm_self", ![t].member = m, ![t].vd = r.msg]
                /\ UNCHANGED vote_data
           ELSE /\ task' = [task EXCEPT ![t].pc = "rm_others", ![t].member = m, ![t].vd = r.msg]
                /\ vote_data' = [vote_data EXCEPT ![r.msg].voters = @ \cup {r.user}]
        /\ UNCHANGED <<clock, button_vars, join_vars, _is_loaded, cog, last, config, active_votes, message, msg_guild, reactions, inv,
                       cancels, hist, events>>

\* remove_reaction(reaction.emoji, user) of a refused ballot returns
on_reaction_add_removed(t, ok) ==
    LET r == task[t]
    IN  /\ cog = "toxic"
        /\ r.pc = "rm_self"
        /\ IF message[r.msg] # "live"
           THEN ok /\ UNCHANGED <<reactions, events>>
           ELSE IF ok
           THEN /\ reactions' = [reactions EXCEPT ![r.msg][r.user] = @ \ {r.emoji}]
                /\ UNCHANGED events
           ELSE Fault /\ UNCHANGED reactions
        /\ task' = [task EXCEPT ![t] = Finished(r, "done")]
        /\ UNCHANGED <<clock, button_vars, join_vars, _is_loaded, cog, last, config, active_votes, vote_data, message, msg_guild, inv,
                       cancels, hist>>

\* the removals of the voter's other reactions return (kept: those whose removal
\* failed), then fetch_message returns: the threshold check and the early completion
on_reaction_add_threshold(t, kept, fetched) ==
    LET r == task[t]
        others == reactions[r.msg][r.user] \ {r.emoji}
        after == [reactions EXCEPT ![r.msg][r.user] = @ \ (others \ kept)]
        yes_votes == Cardinality({u \in Accounts : "yes" \in after[r.msg][u]})
        no_votes == Cardinality({u \in Accounts : "no" \in after[r.msg][u]})
    IN  /\ cog = "toxic"
        /\ r.pc = "rm_others"
        /\ kept \subseteq others
        /\ IF message[r.msg] # "live"
           THEN \* discord.NotFound: the entry under the key is deleted
                /\ kept = others /\ fetched = "ok"
                /\ active_votes' = Delete(r.guild, r.member)
                /\ task' = [task EXCEPT ![t] = Finished(r, "done")]
                /\ UNCHANGED <<vote_data, hist, events, reactions>>
           ELSE /\ reactions' = after
                /\ IF kept # {} \/ fetched = "error" THEN Fault ELSE UNCHANGED events
                /\ kept # {} => fetched = "ok"
                /\ IF fetched = "error"
                   THEN \* any other exception is printed
                        /\ task' = [task EXCEPT ![t] = Finished(r, "done")]
                        /\ UNCHANGED <<vote_data, active_votes, hist>>
                   ELSE IF VotePassed(yes_votes, no_votes, SessionConfig(r.vd).votes_needed)
                   THEN /\ vote_data' = [vote_data EXCEPT ![r.vd].processed = TRUE]
                        /\ hist' = [hist EXCEPT ![r.vd].early = TRUE]
                        /\ task' = [task EXCEPT ![t] = [NoTask EXCEPT !.pc = "p_new",
                                      !.guild = r.guild, !.member = r.member, !.early = TRUE]]
                        /\ UNCHANGED active_votes
                   ELSE /\ task' = [task EXCEPT ![t] = Finished(r, "done")]
                        /\ UNCHANGED <<vote_data, active_votes, hist>>
        /\ UNCHANGED <<clock, button_vars, join_vars, _is_loaded, cog, last, config, message, msg_guild, inv, cancels>>

\* ---- Toxic._handle_vote_timer and Toxic._process_vote_result ----

\* the guard both coroutines start with: no entry, or the entry is processed
Skip(g, member_id) ==
    \/ active_votes[g][member_id] = 0
    \/ Concluded(active_votes[g][member_id])

\* _process_vote_result up to its first await: the guard, the processed mark, fetch_message
Enter(t) ==
    LET r == task[t]
        s == active_votes[r.guild][r.member]
    IN  IF Skip(r.guild, r.member)
        THEN /\ task' = [task EXCEPT ![t] = Finished(r, "done")]
             /\ UNCHANGED <<vote_data, hist>>
        ELSE /\ vote_data' = [vote_data EXCEPT ![s].processed = TRUE]
             /\ hist' = [hist EXCEPT ![s].resolver = Append(@, t)]
             /\ task' = [task EXCEPT ![t].pc = "p_fetch", ![t].vd = s]

\* asyncio.sleep(vote_duration) is over: the second guard, then _process_vote_result(early_completion=False)
_handle_vote_timer(t) ==
    LET r == task[t]
    IN  /\ cog = "toxic"
        /\ r.pc = "t_sleep"
        /\ IF Skip(r.guild, r.member)
           THEN /\ task' = [task EXCEPT ![t] = Finished(r, "done")]
                /\ hist' = [hist EXCEPT ![t[2]].elapsed = TRUE]
                /\ UNCHANGED vote_data
           ELSE LET s == active_votes[r.guild][r.member]
                IN  /\ vote_data' = [vote_data EXCEPT ![s].processed = TRUE]
                    /\ hist' = [hist EXCEPT ![s].resolver = Append(@, t),
                                            ![t[2]].elapsed = TRUE]
                    /\ task' = [task EXCEPT ![t].pc = "p_fetch", ![t].vd = s]
        /\ UNCHANGED <<clock, button_vars, join_vars, _is_loaded, cog, last, config, active_votes, message, msg_guild, reactions, inv,
                       cancels, events>>

\* the task spawned by on_reaction_add starts _process_vote_result(early_completion=True)
_process_vote_result(t) ==
    /\ cog = "toxic"
    /\ task[t].pc = "p_new"
    /\ Enter(t)
    /\ UNCHANGED <<clock, button_vars, join_vars, _is_loaded, cog, last, config, active_votes, message, msg_guild, reactions, inv,
                   cancels, events>>

\* fetch_message returns: the count, the outcome, and the kick/ban call if the vote passed
_process_vote_result_count(t, fetched) ==
    LET r == task[t]
        s == r.vd
        yes_votes == CountVotes(s, "yes")
        no_votes == CountVotes(s, "no")
        abstain_votes == CountVotes(s, "abstain")
        vote_passed == VotePassed(yes_votes, no_votes, SessionConfig(s).votes_needed)
    IN  /\ cog = "toxic"
        /\ r.pc = "p_fetch"
        /\ IF message[s] # "live"
           THEN \* discord.NotFound: clean up and return
                /\ fetched = "ok"
                /\ active_votes' = Delete(r.guild, r.member)
                /\ task' = [task EXCEPT ![t] = Finished(r, "done")]
                /\ UNCHANGED <<vote_data, hist, events>>
           ELSE IF fetched = "error"
           THEN \* any other exception leaves the coroutine
                /\ Fault
                /\ task' = [task EXCEPT ![t] = Finished(r, "crashed")]
                /\ UNCHANGED <<vote_data, active_votes, hist>>
           ELSE /\ vote_data' = [vote_data EXCEPT ![s].vote_passed =
                                    IF vote_passed THEN "yes" ELSE "no"]
                /\ hist' = [hist EXCEPT
                      ![s].counts = Append(@, Count(yes_votes, no_votes, abstain_votes,
                                                    vote_passed)),
                      ![s].punished = IF vote_passed
                                      THEN Append(@, ActionKind(SessionConfig(s).ban_mode))
                                      ELSE @]
                /\ task' = [task EXCEPT ![t].pc = IF vote_passed THEN "p_act" ELSE "p_edit",
                                        ![t].res = IF vote_passed THEN "none" ELSE "failed"]
                /\ UNCHANGED <<active_votes, events>>
        /\ UNCHANGED <<clock, button_vars, join_vars, _is_loaded, cog, last, config, message, msg_guild, reactions, inv, cancels>>

\* a variant in which a kick/ban that raises downgrades the stored outcome
_process_vote_result_acted_downgrade(t, result) ==
    LET r == task[t]
    IN  /\ cog = "toxic"
        /\ r.pc = "p_act"
        /\ result \in {"done", "forbidden", "error"}
        /\ IF result = "done"
           THEN UNCHANGED <<events, vote_data>>
           ELSE /\ Fault
                /\ vote_data' = [vote_data EXCEPT ![r.vd].vote_passed = "no"]
        /\ task' = [task EXCEPT ![t].pc = "p_edit", ![t].res = result]
        /\ UNCHANGED <<clock, button_vars, join_vars, _is_loaded, cog, last, config, active_votes, message, msg_guild,
                       reactions, inv, cancels, hist>>

\* the kick/ban call returns or raises
_process_vote_result_acted(t, result) ==
    LET r == task[t]
    IN  /\ cog = "toxic"
        /\ r.pc = "p_act"
        /\ result \in {"done", "forbidden", "error"}
        /\ IF result = "done" THEN UNCHANGED events ELSE Fault
        /\ task' = [task EXCEPT ![t].pc = "p_edit", ![t].res = result]
        /\ UNCHANGED <<clock, button_vars, join_vars, _is_loaded, cog, last, config, active_votes, vote_data, message, msg_guild,
                       reactions, inv, cancels, hist>>

\* message.edit and clear_reactions return or raise HTTPException, the log, the cleanup
_process_vote_result_cleanup(t, edited) ==
    LET r == task[t]
        s == r.vd
    IN  /\ cog = "toxic"
        /\ r.pc = "p_edit"
        /\ IF message[s] # "live"
           THEN edited = FALSE /\ UNCHANGED <<reactions, hist, events>>
           ELSE IF edited
           THEN /\ hist' = [hist EXCEPT ![s].summaries = Append(@, r.res),
                                         ![s].shown = @ \cup {ResultEmbed(s)}]
                /\ reactions' = [reactions EXCEPT ![s] = [u \in Accounts |-> {}]]
                /\ UNCHANGED events
           ELSE Fault /\ UNCHANGED <<reactions, hist>>
        /\ active_votes' = Delete(r.guild, r.member)
        /\ task' = [task EXCEPT ![t] = Finished(r, "done")]
        /\ UNCHANGED <<clock, button_vars, join_vars, _is_loaded, cog, last, config, vote_data, message, msg_guild, inv, cancels>>

\* ---- Toxic.cancel_vote ----

\* the checks, the processed mark, then message.edit
cancel_vote(c, g, author, member) ==
    LET s == active_votes[g][member]
    IN  /\ cog = "toxic"
        /\ cancels[c].pc = "idle"
        /\ \A j \in CancelIds : j < c => cancels[j].pc # "idle"
        /\ Event
        /\ IF CancelRefused(g, member)
           THEN \* "No active vote" / "has already concluded"
                /\ cancels' = [cancels EXCEPT ![c] =
                      [NoCancel EXCEPT !.pc = "refused", !.guild = g, !.member = member]]
                /\ UNCHANGED <<vote_data, hist>>
           ELSE IF ~MayCancel(author, s)
           THEN /\ cancels' = [cancels EXCEPT ![c] =
                      [NoCancel EXCEPT !.pc = "denied", !.guild = g, !.author = author,
                                       !.member = member]]
                /\ UNCHANGED <<vote_data, hist>>
           ELSE /\ vote_data' = [vote_data EXCEPT ![s].processed = TRUE]
                /\ hist' = [hist EXCEPT ![s].cancelled = TRUE]
                /\ cancels' = [cancels EXCEPT ![c] =
                      [pc |-> "c_edit", guild |-> g, author |-> author,
                       member |-> member, vd |-> s]]
        /\ UNCHANGED <<clock, button_vars, join_vars, _is_loaded, cog, last, config, active_votes, message, msg_guild, reactions, inv,
                       task>>

\* message.edit and clear_reactions return or raise HTTPException, then the entry is deleted
cancel_vote_delete(c, edited) ==
    LET r == cancels[c]
    IN  /\ cog = "toxic"
        /\ r.pc = "c_edit"
        /\ IF message[r.vd] # "live"
           THEN edited = FALSE /\ UNCHANGED <<reactions, events>>
           ELSE IF edited
           THEN /\ reactions' = [reactions EXCEPT ![r.vd] = [u \in Accounts |-> {}]]
                /\ UNCHANGED events
           ELSE Fault /\ UNCHANGED reactions
        /\ IF active_votes[r.guild][r.member] = 0
           THEN \* del raises KeyError
                /\ cancels' = [cancels EXCEPT ![c] = [NoCancel EXCEPT !.pc = "crashed"]]
                /\ UNCHANGED <<active_votes, hist>>
           ELSE /\ active_votes' = Delete(r.guild, r.member)
                /\ cancels' = [cancels EXCEPT ![c] = [NoCancel EXCEPT !.pc = "done"]]
                /\ hist' = [hist EXCEPT ![r.vd].reported = TRUE]
        /\ UNCHANGED <<clock, button_vars, join_vars, _is_loaded, cog, last, config, vote_data, message, msg_guild, inv, task>>

ToxicNext ==
    \/ \E k \in Sids, g \in Guilds, a \in Users, m \in Users : vote_member(k, g, a, m)
    \/ \E k \in Sids : vote_member_store(k)
    \/ \E t \in EventIds : on_reaction_add(t)
    \/ \E t \in EventIds, ok \in BOOLEAN : on_reaction_add_removed(t, ok)
    \/ \E t \in EventIds, kept \in SUBSET Emojis, f \in {"ok", "error"} :
          on_reaction_add_threshold(t, kept, f)
    \/ \E t \in TimerIds : _handle_vote_timer(t)
    \/ \E t \in EventIds : _process_vote_result(t)
    \/ \E t \in TaskIds, f \in {"ok", "error"} : _process_vote_result_count(t, f)
    \/ \E t \in TaskIds, res \in {"done", "forbidden", "error"} : _process_vote_result_acted(t, res)
    \/ \E t \in TaskIds, ok \in BOOLEAN : _process_vote_result_cleanup(t, ok)
    \/ \E c \in CancelIds, g \in Guilds, a \in Users, m \in Users : cancel_vote(c, g, a, m)
    \/ \E c \in CancelIds, ok \in BOOLEAN : cancel_vote_delete(c, ok)

\* ---- Toxicity.vote_kick ----

\* up to the sent vote message: the target checks, the check for an existing vote,
\* the settings, ctx.send
vote_kick(k, g, author, member) ==
    /\ cog = "toxicity"
    /\ inv[k].pc = "idle"
    /\ \A j \in Sids : j < k => inv[j].pc # "idle"
    /\ Event
    /\ IF InvalidTarget(author, member) \/ HasActiveVote(g, member)
       THEN /\ inv' = [inv EXCEPT ![k] = [NoInv EXCEPT !.pc = "rejected", !.guild = g,
                                           !.author = author, !.member = member]]
            /\ UNCHANGED <<message, msg_guild>>
       ELSE /\ inv' = [inv EXCEPT ![k] =
                         [pc |-> "sent", guild |-> g, author |-> author, member |-> member,
                          votes_needed |-> config[g].votes_needed,
                          ban_mode |-> config[g].ban_mode, anonvote |-> FALSE]]
            /\ message' = [message EXCEPT ![k] = "live"]
            /\ msg_guild' = [msg_guild EXCEPT ![k] = g]
    /\ UNCHANGED <<clock, button_vars, join_vars, _is_loaded, cog, last, config, active_votes, vote_data, reactions, task, cancels, hist>>

\* after the reactions are seeded: the session is stored and its timer task sleeps
vote_kick_store(k) ==
    /\ cog = "toxicity"
    /\ inv[k].pc = "sent"
    /\ inv' = [inv EXCEPT ![k] = [NoInv EXCEPT !.pc = "done"]]
    /\ vote_data' = [vote_data EXCEPT ![k] =
                       [NoData EXCEPT !.guild = inv[k].guild, !.target = inv[k].member,
                                      !.initiator = inv[k].author,
                                      !.votes_needed = inv[k].votes_needed,
                                      !.ban_mode = inv[k].ban_mode]]
    /\ active_votes' = [active_votes EXCEPT ![inv[k].guild][inv[k].member] = k]
    /\ task' = [task EXCEPT ![<<"T", k>>] =
                  [NoTask EXCEPT !.pc = "t_sleep", !.guild = inv[k].guild,
                                 !.member = inv[k].member]]
    /\ UNCHANGED <<clock, button_vars, join_vars, _is_loaded, cog, last, config, message, msg_guild, reactions, cancels, hist, events>>

\* ---- Toxicity._cleanup_expired_votes and Toxicity._handle_vote_timer ----

\* the periodic task finds an entry whose duration is over and awaits _handle_vote_timer,
\* which sleeps the duration once more
_cleanup_expired_votes(t, g, member_id) ==
    /\ cog = "toxicity"
    /\ t \in CleanupIds
    /\ task[t].pc = "none"
    /\ active_votes[g][member_id] # 0
    /\ hist[active_votes[g][member_id]].elapsed
    /\ Event
    /\ task' = [task EXCEPT ![t] = [NoTask EXCEPT !.pc = "t_sleep", !.guild = g,
                                                  !.member = member_id]]
    /\ UNCHANGED <<clock, button_vars, join_vars, _is_loaded, cog, last, config, active_votes, vote_data, message, msg_guild, reactions,
                   inv, cancels, hist>>

\* asyncio.sleep(duration) is over: the check that the vote is still active, fetch_message
Toxicity_handle_vote_timer(t) ==
    LET r == task[t]
        s == active_votes[r.guild][r.member]
        own == IF t \in TimerIds THEN [hist EXCEPT ![t[2]].elapsed = TRUE] ELSE hist
    IN  /\ cog = "toxicity"
        /\ r.pc = "t_sleep"
        /\ IF s = 0
           THEN /\ task' = [task EXCEPT ![t] = Finished(r, "done")]
                /\ hist' = own
           ELSE /\ task' = [task EXCEPT ![t].pc = "p_fetch", ![t].vd = s]
                /\ hist' = [own EXCEPT ![s].resolver = Append(@, t)]
        /\ UNCHANGED <<clock, button_vars, join_vars, _is_loaded, cog, last, config, active_votes, vote_data, message, msg_guild,
                       reactions, inv, cancels, events>>

\* fetch_message returns: the count, the outcome, and the kick/ban call if the vote passed
Toxicity_handle_vote_timer_count(t, fetched) ==
    LET r == task[t]
        s == r.vd
        yes_votes == CountVotes(s, "yes")
        no_votes == CountVotes(s, "no")
        abstain_votes == CountVotes(s, "abstain")
        vote_passed == VotePassed(yes_votes, no_votes, SessionConfig(s).votes_needed)
    IN  /\ cog = "toxicity"
        /\ r.pc = "p_fetch"
        /\ IF message[s] # "live"
           THEN \* discord.NotFound: del active_votes[guild.id][member_id]
                /\ fetched = "ok"
                /\ task' = [task EXCEPT ![t] = Finished(r,
                              IF active_votes[r.guild][r.member] = 0
                              THEN "crashed" ELSE "done")]
                /\ active_votes' = Delete(r.guild, r.member)
                /\ UNCHANGED <<hist, events>>
           ELSE IF fetched = "error"
           THEN \* any other exception leaves the coroutine
                /\ Fault
                /\ task' = [task EXCEPT ![t] = Finished(r, "crashed")]
                /\ UNCHANGED <<active_votes, hist>>
           ELSE /\ hist' = [hist EXCEPT
                      ![s].counts = Append(@, Count(yes_votes, no_votes, abstain_votes,
                                                    vote_passed)),
                      ![s].punished = IF vote_passed
                                      THEN Append(@, ActionKind(SessionConfig(s).ban_mode))
                                      ELSE @]
                /\ task' = [task EXCEPT ![t].pc = IF vote_passed THEN "p_act" ELSE "p_edit",
                                        ![t].res = IF vote_passed THEN "none" ELSE "failed"]
                /\ UNCHANGED <<active_votes, events>>
        /\ UNCHANGED <<clock, button_vars, join_vars, _is_loaded, cog, last, config, vote_data, message, msg_guild, reactions, inv, cancels>>

\* the kick/ban call returns, or raises Forbidden or HTTPException
Toxicity_handle_vote_timer_acted(t, result) ==
    LET r == task[t]
    IN  /\ cog = "toxicity"
        /\ r.pc = "p_act"
        /\ result \in {"done", "forbidden", "error"}
        /\ IF result = "done" THEN UNCHANGED events ELSE Fault
        /\ task' = [task EXCEPT ![t].pc = "p_edit", ![t].res = result]
        /\ UNCHANGED <<clock, button_vars, join_vars, _is_loaded, cog, last, config, active_votes, vote_data, message, msg_guild,
                       reactions, inv, cancels, hist>>

\* message.edit and clear_reactions return or raise, the log, del active_votes[...][...]
Toxicity_handle_vote_timer_cleanup(t, edited) ==
    LET r == task[t]
        s == r.vd
    IN  /\ cog = "toxicity"
        /\ r.pc = "p_edit"
        /\ IF message[s] # "live" \/ ~edited
           THEN \* the HTTPException leaves the coroutine before the cleanup
                /\ ~edited
                /\ IF message[s] = "live" THEN Fault ELSE UNCHANGED events
                /\ task' = [task EXCEPT ![t] = Finished(r, "crashed")]
                /\ UNCHANGED <<reactions, hist, active_votes>>
           ELSE /\ hist' = [hist EXCEPT ![s].summaries = Append(@, r.res)]
                /\ reactions' = [reactions EXCEPT ![s] = [u \in Accounts |-> {}]]
                /\ task' = [task EXCEPT ![t] = Finished(r,
                              IF active_votes[r.guild][r.member] = 0
                              THEN "crashed" ELSE "done")]
                /\ active_votes' = Delete(r.guild, r.member)
                /\ UNCHANGED events
        /\ UNCHANGED <<clock, button_vars, join_vars, _is_loaded, cog, last, config, vote_data, message, msg_guild, inv, cancels>>

\* ---- Toxicity.cancel_vote ----

Toxicity_cancel_vote(c, g, author, member) ==
    LET s == active_votes[g][member]
    IN  /\ cog = "toxicity"
        /\ cancels[c].pc = "idle"
        /\ \A j \in CancelIds : j < c => cancels[j].pc # "idle"
        /\ Event
        /\ IF s = 0
           THEN /\ cancels' = [cancels EXCEPT ![c] = [NoCancel EXCEPT !.pc = "refused"]]
                /\ UNCHANGED hist
           ELSE IF ~MayCancel(author, s)
           THEN /\ cancels' = [cancels EXCEPT ![c] =
                      [NoCancel EXCEPT !.pc = "denied", !.guild = g, !.author = author,
                                       !.member = member]]
                /\ UNCHANGED hist
           ELSE /\ hist' = [hist EXCEPT ![s].cancelled = TRUE]
                /\ cancels' = [cancels EXCEPT ![c] =
                      [pc |-> "c_edit", guild |-> g, author |-> author,
                       member |-> member, vd |-> s]]
        /\ UNCHANGED <<clock, button_vars, join_vars, _is_loaded, cog, last, config, active_votes, vote_data, message, msg_guild,
                       reactions, inv, task>>

\* message.edit and clear_reactions return or raise HTTPException, then the entry is deleted
Toxicity_cancel_vote_delete(c, edited) ==
    LET r == cancels[c]
    IN  /\ cog = "toxicity"
        /\ r.pc = "c_edit"
        /\ IF message[r.vd] # "live"
           THEN edited = FALSE /\ UNCHANGED <<reactions, events>>
           ELSE IF edited
           THEN /\ reactions' = [reactions EXCEPT ![r.vd] = [u \in Accounts |-> {}]]
                /\ UNCHANGED events
           ELSE Fault /\ UNCHANGED reactions
        /\ IF active_votes[r.guild][r.member] = 0
           THEN \* del raises KeyError
                /\ cancels' = [cancels EXCEPT ![c] = [NoCancel EXCEPT !.pc = "crashed"]]
                /\ UNCHANGED <<active_votes, hist>>
           ELSE /\ active_votes' = Delete(r.guild, r.member)
                /\ cancels' = [cancels EXCEPT ![c] = [NoCancel EXCEPT !.pc = "done"]]
                /\ hist' = [hist EXCEPT ![r.vd].reported = TRUE]
        /\ UNCHANGED <<clock, button_vars, join_vars, _is_loaded, cog, last, config, vote_data, message, msg_guild, inv, task>>

\* ---- Toxicity.on_reaction_add ----

\* up to the first await: ignore a bot, find the vote, refuse an emoji that is not a
\* vote emoji and a second ballot, record the voter
Toxicity_on_reaction_add(t) ==
    LET r == task[t]
        m == FindVote(r.guild, r.msg)
    IN  /\ cog = "toxicity"
        /\ r.pc = "ev"
        /\ InOrder(t)
        /\ IF IsBot(r.user) \/ m = 0
           THEN /\ task' = [task EXCEPT ![t] = Finished(r, "done")]
                /\ UNCHANGED vote_data
           ELSE IF ~ValidEmoji(r.emoji) \/ AlreadyVoted(r.msg, r.user)
           THEN /\ task' = [task EXCEPT ![t].pc = "rm_self", ![t].member = m, ![t].vd = r.msg]
                /\ UNCHANGED vote_data
           ELSE /\ task' = [task EXCEPT ![t].pc = "rm_others", ![t].member = m, ![t].vd = r.msg]
                /\ vote_data' = [vote_data EXCEPT ![r.msg].voters = @ \cup {r.user}]
        /\ UNCHANGED <<clock, button_vars, join_vars, _is_loaded, cog, last, config, active_votes, message, msg_guild, reactions, inv,
                       cancels, hist, events>>

\* remove_reaction(reaction.emoji, user) of a refused ballot returns
Toxicity_on_reaction_add_removed(t, ok) ==
    LET r == task[t]
    IN  /\ cog = "toxicity"
        /\ r.pc = "rm_self"
        /\ IF message[r.msg] # "live"
           THEN ok /\ UNCHANGED <<reactions, events>>
           ELSE IF ok
           THEN /\ reactions' = [reactions EXCEPT ![r.msg][r.user] = @ \ {r.emoji}]
                /\ UNCHANGED events
           ELSE Fault /\ UNCHANGED reactions
        /\ task' = [task EXCEPT ![t] = Finished(r, "done")]
        /\ UNCHANGED <<clock, button_vars, join_vars, _is_loaded, cog, last, config, active_votes, vote_data, message, msg_guild, inv,
                       cancels, hist>>

\* the removals of the voter's other reactions return (kept: those whose removal failed)
Toxicity_on_reaction_add_cleaned(t, kept) ==
    LET r == task[t]
        others == reactions[r.msg][r.user] \ {r.emoji}
    IN  /\ cog = "toxicity"
        /\ r.pc = "rm_others"
        /\ kept \subseteq others
        /\ IF message[r.msg] # "live"
           THEN kept = others /\ UNCHANGED <<reactions, events>>
           ELSE /\ IF kept = {} THEN UNCHANGED events ELSE Fault
                /\ reactions' = [reactions EXCEPT ![r.msg][r.user] = @ \ (others \ kept)]
        /\ task' = [task EXCEPT ![t] = Finished(r, "done")]
        /\ UNCHANGED <<clock, button_vars, join_vars, _is_loaded, cog, last, config, active_votes, vote_data, message, msg_guild, inv,
                       cancels, hist>>

ToxicityNext ==
    \/ \E k \in Sids, g \in Guilds, a \in Users, m \in Users : vote_kick(k, g, a, m)
    \/ \E k \in Sids : vote_kick_store(k)
    \/ \E t \in CleanupIds, g \in Guilds, m \in Users : _cleanup_expired_votes(t, g, m)
    \/ \E t \in TimerIds \cup CleanupIds : Toxicity_handle_vote_timer(t)
    \/ \E t \in TaskIds, f \in {"ok", "error"} : Toxicity_handle_vote_timer_count(t, f)
    \/ \E t \in TaskIds, res \in {"done", "forbidden", "error"} :
          Toxicity_handle_vote_timer_acted(t, res)
    \/ \E t \in TaskIds, ok \in BOOLEAN : Toxicity_handle_vote_timer_cleanup(t, ok)
    \/ \E c \in CancelIds, g \in Guilds, a \in Users, m \in Users :
          Toxicity_cancel_vote(c, g, a, m)
    \/ \E c \in CancelIds, ok \in BOOLEAN : Toxicity_cancel_vote_delete(c, ok)
    \/ \E t \in EventIds : Toxicity_on_reaction_add(t)
    \/ \E t \in EventIds, ok \in BOOLEAN : Toxicity_on_reaction_add_removed(t, ok)
    \/ \E t \in EventIds, kept \in SUBSET Emojis : Toxicity_on_reaction_add_cleaned(t, kept)

Next ==
    \/ \E g \in Guilds, c \in MinVotesNeeded..MaxNeeded : set_votes_required(g, c)
    \/ \E g \in Guilds, m \in {"kick", "ban", "mute"} : set_punishment_mode(g, m)
    \/ \E i \in 1..MaxReacts, s \in Sids, u \in Users, e \in Emojis : user_adds_reaction(i, s, u, e)
    \/ \E s \in Sids : message_deleted(s)
    \/ ToxicNext
    \/ ToxicityNext

Spec == Init /\ [][Next]_vars

\* ---- the same cogs with every kind of account of the guild ----

\* who reacts, and with what
GuildVoters == {GuildOwner, OtherBot}
GuildEmojis == {"yes", "other"}

\* a moderator may send the vote command, the bot's own account may be named, and
\* another bot may react, also with an emoji that is not a vote emoji
GuildNext ==
    \/ \E k \in Sids, g \in Guilds, a \in Humans, m \in Members : vote_member(k, g, a, m)
    \/ \E k \in Sids : vote_member_store(k)
    \/ \E k \in Sids, g \in Guilds, a \in Humans, m \in Members : vote_kick(k, g, a, m)
    \/ \E k \in Sids : vote_kick_store(k)
    \/ \E i \in 1..MaxReacts, s \in Sids, u \in GuildVoters, e \in GuildEmojis :
          user_adds_reaction(i, s, u, e)
    \/ \E t \in EventIds : on_reaction_add(t)
    \/ \E t \in EventIds, ok \in BOOLEAN : on_reaction_add_removed(t, ok)
    \/ \E t \in EventIds, kept \in SUBSET Emojis, f \in {"ok", "error"} :
          on_reaction_add_threshold(t, kept, f)
    \/ \E t \in TimerIds : _handle_vote_timer(t)
    \/ \E t \in EventIds : _process_vote_result(t)
    \/ \E t \in TaskIds, f \in {"ok", "error"} : _process_vote_result_count(t, f)
    \/ \E t \in TaskIds, res \in {"done", "forbidden", "error"} : _process_vote_result_acted(t, res)
    \/ \E t \in TaskIds, ok \in BOOLEAN : _process_vote_result_cleanup(t, ok)
    \/ \E t \in TimerIds : Toxicity_handle_vote_timer(t)
    \/ \E t \in TaskIds, f \in {"ok", "error"} : Toxicity_handle_vote_timer_count(t, f)
    \/ \E t \in TaskIds, res \in {"done", "forbidden", "error"} :
          Toxicity_handle_vote_timer_acted(t, res)
    \/ \E t \in TaskIds, ok \in BOOLEAN : Toxicity_handle_vote_timer_cleanup(t, ok)
    \/ \E t \in EventIds : Toxicity_on_reaction_add(t)
    \/ \E t \in EventIds, ok \in BOOLEAN : Toxicity_on_reaction_add_removed(t, ok)
    \/ \E t \in EventIds, kept \in SUBSET Emojis : Toxicity_on_reaction_add_cleaned(t, kept)

GuildSpec == Init /\ [][GuildNext]_vars

\* ---- properties ----

\* no coroutine of the cog is suspended at an await or waiting to start
Quiet ==
    /\ \A t \in TaskIds : task[t].pc \in {"none", "done", "crashed"}
    /\ \A k \in Sids : inv[k].pc # "sent"
    /\ \A c \in CancelIds : cancels[c].pc # "c_edit"

\* no external call has failed and no vote message was deleted
NoFault == events.faults = 0

\* the session is the entry of its key in active_votes
Registered(s) == active_votes[vote_data[s].guild][vote_data[s].target] = s

\* the session was stored by the vote command
Stored(s) == vote_data[s].target # 0

\* the session's own timer task has run to its end
TimerOver(s) == task[<<"T", s>>].pc \in {"done", "crashed"}

\* C1: in toxic.py, however the timer and the early-completion trigger of a
\* session interleave, the kick/ban is called at most once and the "Vote Results"
\* summary is written exactly once: so a session that the early trigger took, with
\* no failed call, has exactly one summary once its timer is over and nothing runs.
C1_ExactlyOnceResolution ==
    cog = "toxic" =>
        \A s \in Sids :
            /\ Len(hist[s].punished) <= 1
            /\ Len(hist[s].summaries) <= 1
            /\ (Stored(s) /\ hist[s].early /\ NoFault /\ TimerOver(s) /\ Quiet)
                   => Len(hist[s].summaries) = 1

\* C2: in toxic.py, once a recorded ballot makes the tally satisfy yes >= N and
\* yes > no, the session is resolved PASSED by the task spawned at that moment and
\* the kick/ban of the session's configured kind is called exactly once.
C2_EarlyCompletion ==
    cog = "toxic" =>
        \A s \in Sids :
            (hist[s].early /\ NoFault
               /\ \A t \in EventIds : task[t].pc \in {"none", "done", "crashed"})
            => /\ hist[s].punished = <<ActionKind(vote_data[s].ban_mode)>>
               /\ vote_data[s].vote_passed = "yes"

\* C3: in both cogs, a vote command issued while active_votes[guild] holds an entry
\* for the target is rejected, and the rejection stores no session, starts no timer,
\* sends no vote message and leaves the registry as it was; a rejected command does
\* nothing later.
C3_OneSessionPerTarget ==
    [][\A k \in Sids :
          /\ (/\ inv[k].pc = "idle"
              /\ inv'[k].pc # "idle"
              /\ active_votes[inv'[k].guild][inv'[k].member] # 0)
             => /\ inv'[k].pc = "rejected"
                /\ UNCHANGED <<active_votes, vote_data, task, message, hist>>
          /\ inv[k].pc = "rejected" => inv'[k] = inv[k]]_vars

\* a command for a valid target was rejected and the target's session is still registered
C3_Witness ==
    \E k \in Sids :
        /\ inv[k].pc = "rejected"
        /\ inv[k].member # inv[k].author
        /\ inv[k].member # GuildOwner
        /\ active_votes[inv[k].guild][inv[k].member] # 0
        /\ active_votes[inv[k].guild][inv[k].member] # k
        /\ task[<<"T", k>>].pc = "none"

\* C4: in both cogs, a resolution decides PASSED exactly when the tally it read has
\* yes >= votes_needed and yes > no (so a tie fails and abstain plays no part), and
\* the kick/ban is called for exactly the resolutions that decided PASSED.
C4_ThresholdCorrectness ==
    \A s \in Sids :
        LET cs == hist[s].counts
            needed == vote_data[s].votes_needed
        IN  /\ \A i \in DOMAIN cs :
                  cs[i].passed <=> (cs[i].yes >= needed /\ cs[i].yes > cs[i].no)
            /\ Len(hist[s].punished) = Cardinality({i \in DOMAIN cs : cs[i].passed})
            /\ (cog = "toxic" /\ cs # <<>>) =>
                  vote_data[s].vote_passed = IF cs[Len(cs)].passed THEN "yes" ELSE "no"

\* a resolution read a tie that reaches votes_needed, decided FAILED and called no kick/ban
C4_Witness ==
    \E s \in Sids : \E i \in DOMAIN hist[s].counts :
        /\ hist[s].counts[i].yes = hist[s].counts[i].no
        /\ hist[s].counts[i].yes >= vote_data[s].votes_needed
        /\ ~hist[s].counts[i].passed
        /\ hist[s].punished = <<>>
        /\ hist[s].summaries = <<"failed">>

\* C5: in both cogs, every kick/ban call of a session belongs to a resolution that
\* decided PASSED and is of the kind of the session's stored ban_mode, and a session
\* whose cancellation was accepted causes no kick/ban call from then on.
C5_PunishmentOnlyOnPassed ==
    [][\A s \in Sids :
          /\ \A i \in DOMAIN hist'[s].punished :
                hist'[s].punished[i] = ActionKind(vote_data'[s].ban_mode)
          /\ Len(hist'[s].punished)
                <= Cardinality({i \in DOMAIN hist'[s].counts : hist'[s].counts[i].passed})
          /\ hist[s].cancelled => hist'[s].punished = hist[s].punished]_vars

\* C6: in toxic.py, once cancel_vote was accepted for a session, no kick/ban is called
\* for it, the session is out of active_votes when the command has finished, and the
\* session's timer task resolves nothing when it runs later.
C6_CancellationWins ==
    cog = "toxic" =>
        \A s \in Sids :
            hist[s].cancelled =>
                /\ hist[s].punished = <<>>
                /\ hist[s].summaries = <<>>
                /\ (\A c \in CancelIds : cancels[c].pc # "c_edit") => ~Registered(s)
                /\ \A s2 \in Sids : \A i \in DOMAIN hist[s2].resolver :
                      hist[s2].resolver[i] # <<"T", s>>

\* the user cast "yes" and then "no" on the registered, open session, both reactions
\* were handled without a failed call, and no resolution or cancellation has begun
TwoBallots(s, u) ==
    /\ hist[s].casts = <<[user |-> u, emoji |-> "yes", open |-> TRUE, late |-> FALSE],
                         [user |-> u, emoji |-> "no", open |-> TRUE, late |-> FALSE]>>
    /\ \A t \in EventIds : task[t].pc \in {"none", "done"}
    /\ NoFault
    /\ IsOpen(s)

C8_TimeoutFallback ==
    cog = "toxic" =>
        \A s \in Sids :
            (/\ Stored(s) /\ ~hist[s].cancelled /\ ~hist[s].early
             /\ \A i \in DOMAIN hist[s].casts : hist[s].casts[i].emoji # "yes"
             /\ message[s] = "live"
             /\ TimerOver(s) /\ Quiet)
            => /\ ~Registered(s)
               /\ hist[s].punished = <<>>
               /\ hist[s].counts # <<>>
               /\ \A i \in DOMAIN hist[s].counts : ~hist[s].counts[i].passed

\* C9: in both cogs, a session whose resolution was started is out of active_votes
\* once the resolving task has ended, whichever of its external calls failed.
C9_RegistryCleanup ==
    \A s \in Sids : \A i \in DOMAIN hist[s].resolver :
        task[hist[s].resolver[i]].pc \in {"done", "crashed"} => ~Registered(s)

\* C10: in toxic.py, when the tally passed and the kick/ban raised, vote_passed stays
\* True and the summary names the failure (no permission, or another error), the
\* kick/ban was called once only, and the session stays processed and leaves the
\* registry.
C10_ActuatorFailureTerminal ==
    cog = "toxic" =>
        /\ \A t \in TaskIds :
              (task[t].pc = "p_edit" /\ task[t].res \in {"forbidden", "error"}) =>
                  /\ vote_data[task[t].vd].vote_passed = "yes"
                  /\ vote_data[task[t].vd].processed
                  /\ hist[task[t].vd].punished =
                        <<ActionKind(vote_data[task[t].vd].ban_mode)>>
        /\ \A s \in Sids : \A i \in DOMAIN hist[s].summaries :
              hist[s].summaries[i] \in {"forbidden", "error"} =>
                  /\ vote_data[s].vote_passed = "yes"
                  /\ vote_data[s].processed
                  /\ Len(hist[s].punished) = 1
                  /\ Len(hist[s].summaries) = 1
                  /\ ~Registered(s)

\* a passed vote whose kick/ban was refused: reported as passed without permission
C10_Witness ==
    \E s \in Sids :
        /\ cog = "toxic"
        /\ hist[s].summaries = <<"forbidden">>
        /\ vote_data[s].vote_passed = "yes"
        /\ Len(hist[s].punished) = 1
        /\ ~Registered(s)

\* C11: in toxic.py, a processed flag that is True stays True, and from then on no
\* reaction handler adds to the session's voters and no task starts a resolution of
\* the session.
C11_ResolvedIsTerminal ==
    [][cog = "toxic" =>
          \A s \in Sids :
              vote_data[s].processed =>
                  /\ vote_data'[s].processed
                  /\ vote_data'[s].voters = vote_data[s].voters
                  /\ hist'[s].resolver = hist[s].resolver]_vars

\* a reaction that was added to a processed, still registered session has been handled
\* and its user is not among the voters
C11_Witness ==
    \E s \in Sids : \E i \in DOMAIN hist[s].casts :
        /\ cog = "toxic"
        /\ hist[s].casts[i].late
        /\ vote_data[s].processed
        /\ hist[s].casts[i].user \notin vote_data[s].voters
        /\ \A t \in EventIds : task[t].pc \in {"none", "done"}

\* C12: in both cogs, cancel_vote by a requester who is neither the session's
\* initiator, nor a holder of kick_members, nor the guild owner is denied, and the
\* denial leaves the registry, the session's processed flag and voters, the vote
\* message and every task as they were; the denied command does nothing later.
C12_UnauthorizedCancelRejected ==
    [][\A c \in CancelIds :
          /\ (/\ cancels[c].pc = "idle"
              /\ cancels'[c].pc \in {"c_edit", "denied"}
              /\ cancels'[c].author # vote_data[active_votes[cancels'[c].guild]
                                                            [cancels'[c].member]].initiator
              /\ cancels'[c].author \notin Moderators
              /\ cancels'[c].author # GuildOwner)
             => /\ cancels'[c].pc = "denied"
                /\ UNCHANGED <<active_votes, vote_data, task, message, reactions, hist>>
          /\ cancels[c].pc = "denied" => cancels'[c] = cancels[c]]_vars

\* a cancel was denied and the session is still registered, open, with its timer asleep
C12_Witness ==
    \E c \in CancelIds :
        /\ cancels[c].pc = "denied"
        /\ active_votes[cancels[c].guild][cancels[c].member] # 0
        /\ LET s == active_votes[cancels[c].guild][cancels[c].member]
           IN  /\ cancels[c].author # vote_data[s].initiator
               /\ ~vote_data[s].processed
               /\ ~hist[s].cancelled
               /\ task[<<"T", s>>].pc = "t_sleep"

\* C13: in toxic.py, cancel_vote on a session whose processed flag is set (resolved by
\* the timer, taken by the early trigger or by an earlier cancel, also while that
\* resolution is still in flight) is refused and changes nothing: the registry, the
\* session, the vote message, its reactions and every task stay as they were.
C13_IdempotentCancel ==
    [][cog = "toxic" =>
          \A c \in CancelIds :
              (/\ cancels[c].pc = "idle"
               /\ cancels'[c].pc # "idle"
               /\ active_votes[cancels'[c].guild][cancels'[c].member] # 0
               /\ vote_data[active_votes[cancels'[c].guild][cancels'[c].member]].processed)
              => /\ cancels'[c].pc = "refused"
                 /\ UNCHANGED <<active_votes, vote_data, task, message, reactions, hist>>]_vars

\* a cancel was refused for a registered session whose resolution is in flight
C13_Witness ==
    \E c \in CancelIds :
        /\ cog = "toxic"
        /\ cancels[c].pc = "refused"
        /\ active_votes[cancels[c].guild][cancels[c].member] # 0
        /\ LET s == active_votes[cancels[c].guild][cancels[c].member]
           IN  /\ vote_data[s].processed
               /\ \E t \in TaskIds : task[t].pc = "p_fetch" /\ task[t].vd = s

C15_InvalidTargetsRejected ==
    [][\A k \in Sids :
          /\ inv[k].pc = "idle"
          /\ inv'[k].pc # "idle"
          /\ inv'[k].member \in {inv'[k].author, GuildOwner, Me}
          => /\ inv'[k].pc = "rejected"
             /\ UNCHANGED <<active_votes, vote_data, task, message>>]_vars

\* the accounts whose reaction e on message s is a ballot: those that are not bots
Ballots(s, e) == {u \in Accounts \ Bots : e \in reactions[s][u]}

\* C16: a reaction from a bot account, and a reaction whose emoji is not a vote emoji,
\* is dropped: the account is not added to voters, the reaction is not counted as
\* yes, no or abstain at resolution, and it does not bring about early completion
C16_BallotValidation ==
    [][\A s \in Sids :
          /\ vote_data'[s].voters \cap Bots = {}
          /\ \A i \in 1..MaxReacts :
                (task[<<"E", i>>].pc = "ev" /\ task'[<<"E", i>>].pc # "ev"
                  /\ task[<<"E", i>>].msg = s /\ ~ValidEmoji(task[<<"E", i>>].emoji))
                => /\ vote_data'[s].voters = vote_data[s].voters
                   /\ hist'[s].early = hist[s].early
          /\ hist'[s].counts # hist[s].counts =>
                LET c == hist'[s].counts[Len(hist'[s].counts)]
                IN  /\ c.yes = Cardinality(Ballots(s, "yes"))
                    /\ c.no = Cardinality(Ballots(s, "no"))
                    /\ c.abstain = Cardinality(Ballots(s, "abstain"))
          /\ (hist'[s].early /\ ~hist[s].early) =>
                Cardinality({u \in Accounts \ Bots : "yes" \in reactions'[s][u]})
                    >= vote_data[s].votes_needed]_vars

\* ---- the toxic cog with the anonvote setting and toxic list ----

\* nobody reacts, so every vote ends as failed when its time is over

AnonNext ==
    \/ \E g \in Guilds, st \in {"", "on", "off", "maybe"} : toggle_anonymous_voting(g, st)
    \/ \E g \in Guilds : list_active_votes(g)
    \/ \E k \in Sids, g \in Guilds, a \in Humans, m \in Users : vote_member(k, g, a, m)
    \/ \E k \in Sids : vote_member_store(k)
    \/ \E t \in TimerIds : _handle_vote_timer(t)
    \/ \E t \in TaskIds, f \in {"ok", "error"} : _process_vote_result_count(t, f)
    \/ \E t \in TaskIds, ok \in BOOLEAN : _process_vote_result_cleanup(t, ok)

AnonSpec == Init /\ [][AnonNext]_vars

\* C17: while anonvote is enabled in a guild, the vote embed, the result embed and the
\* embed of toxic list do not depend on who started the vote. The initiator enters an
\* embed only through the member it names as initiator, so two runs that differ only
\* in the initiator send the same embeds exactly if every embed sent for a vote names
\* Anonymous
C17_AnonymousInitiator ==
    [][\A s \in Sids : \A e \in hist'[s].shown \ hist[s].shown :
          (/\ config[msg_guild'[s]].anonvote
           /\ Stored(s) => vote_data[s].anonvote)
          => e.by = Anonymous]_vars

\* ---- the settings commands of the toxic cog ----

\* the time arguments: a number or something else, then a unit or something else
TimeBodies ==
    {<<>>, <<"x">>, <<"-", "3">>, <<"0">>, <<"2", "4">>, <<"2", "5">>, <<"2", "9">>,
     <<"3", "0">>, <<"1", "4", "4", "0">>, <<"1", "4", "4", "1">>,
     <<"8", "6", "4", "0", "0">>, <<"8", "6", "4", "0", "1">>}
TimeUnits == {<<>>, <<"s">>, <<"m">>, <<"h">>, <<"x">>}
TimeInputs == {b \o u : b \in TimeBodies, u \in TimeUnits} \ {<<>>}

\* the counts given to the votes command: around both ends of the range
CountInputs == {MinVotesNeeded - 1, MinVotesNeeded, MaxNeeded, MaxVotesNeeded,
                MaxVotesNeeded + 1}

ConfigNext ==
    \/ \E g \in Guilds, time \in TimeInputs : set_vote_duration(g, time)
    \/ \E g \in Guilds, c \in CountInputs : set_votes_required(g, c)
    \/ \E g \in Guilds, n \in DOMAIN presets \cup {"custom"},
          answer \in {"yes", "no", "timeout"} : apply_config_preset(g, n, answer)
    \/ \E g \in Guilds, answer \in {"yes", "no", "timeout"} : reset_toxic_config(g, answer)

ConfigSpec == Init /\ [][ConfigNext]_vars

\* the time argument reads as a number of seconds within the range
GoodTime(time) ==
    /\ ParseTime(time).ok
    /\ ParseTime(time).seconds \in 30..86400

\* C18: whatever duration, votes, preset and reset commands were given, the stored
\* vote_duration is within 30..86400 and the stored votes_needed within 1..50; a
\* duration or votes command whose value is out of range or does not parse is refused,
\* and a refused command leaves the settings as they were
C18_ConfigBounds ==
    /\ [](\A g \in Guilds : /\ config[g].vote_duration \in 30..86400
                            /\ config[g].votes_needed \in 1..50)
    /\ []((last.cmd = "duration" /\ ~GoodTime(last.arg)) => ~last.accepted)
    /\ []((last.cmd = "votes" /\ last.arg \notin 1..50) => ~last.accepted)
    /\ [][(events' # events /\ last'.cmd \in {"duration", "votes"} /\ ~last'.accepted)
            => UNCHANGED config]_vars

\* the longest duration and the largest count are stored, and a duration one second
\* longer has been refused
C18_Witness ==
    /\ cog = "toxic"
    /\ config["g1"].vote_duration = 86400
    /\ config["g1"].votes_needed = 50
    /\ last = Command("duration", <<"8", "6", "4", "0", "1", "s">>, FALSE)

\* C19: in the toxic cog the timeout path resolves a session only through the
\* session's own timer: a timer task started for an earlier session of the same guild
\* and target never starts the resolution of a later session registered under that key
C19_OwnTimerOnly ==
    cog = "toxic" =>
        \A s \in Sids : \A i \in DOMAIN hist[s].resolver :
            hist[s].resolver[i] \in TimerIds => hist[s].resolver[i] = <<"T", s>>

\* C20: when the vote commands of two different initiators for the same guild and
\* target overlap, the one that comes to its store second does not overwrite the open
\* session the first has registered (and so starts no second timer for the key)
C20_NoOverwriteByOverlap ==
    [][\A k \in Sids :
          LET g == inv[k].guild
              m == inv[k].member
              s == active_votes[g][m]
          IN  (/\ inv[k].pc = "sent"
               /\ inv'[k].pc = "done"
               /\ s # 0
               /\ ~vote_data[s].processed
               /\ vote_data[s].initiator # inv[k].author)
              => /\ active_votes'[g][m] = s
                 /\ task'[<<"T", k>>].pc = "none"]_vars

\* C21: in the Toxicity cog the kick/ban of one session is called at most once,
\* whether its timer task, the periodic task or both run _handle_vote_timer, and
\* whichever call after the kick/ban fails
C21_PunishedAtMostOnce ==
    cog = "toxicity" => \A s \in Sids : Len(hist[s].punished) <= 1

\* C22: in the Toxicity cog, once cancel_vote has reported success for a session no
\* kick/ban is called for that session, and a cancel_vote that passed its checks does
\* not fail at its `del` because _handle_vote_timer has deleted the key meanwhile (no
\* other cancel_vote has: none has reported success for the session)
C22_CancelVersusTimer ==
    [][cog = "toxicity" =>
          /\ \A s \in Sids : hist[s].reported => hist'[s].punished = hist[s].punished
          /\ \A c \in CancelIds :
                (cancels[c].pc = "c_edit" /\ ~hist[cancels[c].vd].reported)
                => cancels'[c].pc # "crashed"]_vars

\* C23: in the toxic cog the tally that decides the outcome counts each voter at most
\* once: when _process_vote_result computes yes, no and abstain, their sum is at most
\* the number of users in the session's voters set
C23_TallyWithinVoters ==
    [][cog = "toxic" =>
          \A s \in Sids :
             hist'[s].counts # hist[s].counts =>
                LET c == hist'[s].counts[Len(hist'[s].counts)]
                IN  c.yes + c.no + c.abstain <= Cardinality(vote_data[s].voters)]_vars

\* ---- the vote view of the button variant (src/toxicity/views.py) ----
\* The view is taken in the state its constructor leaves. discord.py calls the
\* button callback for every press it accepts and, when the timeout passes, marks
\* the view finished and runs on_timeout. The guild has no game roles (the default).

\* the reaction cogs with nothing started
RegistryIdle ==
    /\ config = [g \in Guilds |-> default_guild]
    /\ active_votes = [g \in Guilds |-> [m \in Members |-> 0]]
    /\ vote_data = [s \in Sids |-> NoData]
    /\ message = [s \in Sids |-> "none"]
    /\ msg_guild = [s \in Sids |-> "g1"]
    /\ reactions = [s \in Sids |-> [u \in Accounts |-> {}]]
    /\ inv = [s \in Sids |-> NoInv]
    /\ task = [t \in TaskIds |-> NoTask]
    /\ cancels = [c \in CancelIds |-> NoCancel]
    /\ hist = [s \in Sids |-> NoHist]
    /\ last = NoCommand
    /\ events = [inputs |-> 0, faults |-> 0]
    /\ _is_loaded = TRUE
    /\ clock = 0

ToxicIdle == cog = "toxicity" /\ RegistryIdle

\* the enrollment cog with nobody joining
JoinIdle ==
    /\ active_channels = [m \in Joiners |-> 0]
    /\ joins = [j \in JoinIds |-> NoJoin]

\* whom the vote command of the button variant accepts as target
ButtonTarget(author, user) ==
    /\ user # author
    /\ user # Me
    /\ user # GuildOwner
    /\ ~IsBot(user)

\* ToxicityView.__init__: the invoker's vote is there from the start
ToxicityView(invoker, target, needed, action) ==
    [NoView EXCEPT !.state = "listening", !.invoker = invoker, !.target = target,
                   !.votes_needed = needed, !.action = action, !.votes = {invoker}]

ViewInit ==
    /\ ToxicIdle
    /\ JoinIdle
    /\ commands = [c \in CommandIds |-> NoRun]
    /\ \E a \in Humans, m \in Members, n \in ViewNeeded, act \in Actions :
          /\ ButtonTarget(a, m)
          /\ view = ToxicityView(a, m, n, act)

interaction_check(u) == ~IsBot(u)

\* the two presses the callback turns away before it touches the votes
Refusal_none(u) == "none"

Refusal(u) ==
    IF u = view.target THEN "target"
    ELSE IF u = view.invoker THEN "invoker"
    ELSE "none"

\* the button callback: the vote is toggled, then the new label is built from the
\* name settings, which the callback does not have (NameError), so that nothing
\* after it runs: no edit of the message, no check of the number of votes, no stop()
vote(u) ==
    /\ view.state = "listening"
    /\ Len(view.presses) < MaxPresses
    /\ LET how == IF ~interaction_check(u) THEN "ignored"
                  ELSE IF Refusal(u) # "none" THEN Refusal(u)
                  ELSE "NameError"
           votes == IF how # "NameError" THEN view.votes
                    ELSE IF u \in view.votes THEN view.votes \ {u}
                    ELSE view.votes \cup {u}
       IN  view' = [view EXCEPT !.votes = votes,
                                !.presses = Append(@, [user |-> u, how |-> how])]
    /\ UNCHANGED <<toxic_vars, commands, join_vars>>

\* the timeout of the view passes: discord.py finishes the view and schedules on_timeout
view_timeout ==
    /\ view.state = "listening"
    /\ view' = [view EXCEPT !.state = "timed_out"]
    /\ UNCHANGED <<toxic_vars, commands, join_vars>>

\* on_timeout of a view that has no message: with enough votes the member is
\* kicked or banned and the announcement then fails on self.message (None);
\* without, the failure notice fails the same way
on_timeout ==
    /\ view.state = "timed_out"
    /\ view' = [view EXCEPT !.state = "done",
                            !.punished = IF Cardinality(view.votes) >= view.votes_needed
                                         THEN Append(@, view.action) ELSE @,
                            !.outcome = "AttributeError"]
    /\ UNCHANGED <<toxic_vars, commands, join_vars>>

ViewNext ==
    \/ \E u \in Accounts : vote(u)
    \/ view_timeout
    \/ on_timeout

ViewSpec == ViewInit /\ [][ViewNext]_vars

\* C24: in the button variant, a button press that brings the number of votes to
\* votes_needed stops the view, so that the kick/ban (on_timeout) is carried out
\* without waiting for the view's timeout.
C24_EarlyStop ==
    [][(/\ view.state = "listening"
        /\ Cardinality(view.votes) < view.votes_needed
        /\ Cardinality(view'.votes) >= view.votes_needed)
       => view'.state # "listening"]_vars

\* C27: in the button variant the invoker's vote is there from the start and stays,
\* and the target never votes: whatever buttons were pressed by whomever, the
\* invoker's id is in votes and the target's id is not.
C27_InvokerAlwaysTargetNever ==
    view.state # "none" => (view.invoker \in view.votes /\ view.target \notin view.votes)

\* the invoker, the target and a third member have each pressed the button
C27_Witness ==
    /\ \E i \in DOMAIN view.presses : view.presses[i].user = view.invoker
    /\ \E i \in DOMAIN view.presses : view.presses[i].user = view.target
    /\ \E i \in DOMAIN view.presses :
          /\ view.presses[i].user \notin {view.invoker, view.target}
          /\ view.presses[i].user \in view.votes

\* ---- the vote command of the button variant (src/toxic/main.py, src/toxicity/main.py) ----
\* cog says which of the two packages is loaded. The guild has no game roles (the
\* default); ignore_hierarchy is whatever the guild's settings hold when the
\* command reads them.

\* the invocations that hold the guild's slot of max_concurrency(1, BucketType.guild):
\* from the moment the command is accepted until its coroutine returns or raises
Running == {c \in CommandIds : commands[c].pc \in {"settings", "waiting"}}

MaxConcurrencyReached_never == FALSE

MaxConcurrencyReached == Running # {}

\* the checks of the command before it constructs the view; in src/toxic/main.py a
\* guild without game roles leaves only staff as possible targets
CommandRefused(author, user, ignore_hierarchy) ==
    \/ user = author
    \/ user = Me
    \/ user = GuildOwner
    \/ IsBot(user)
    \/ (cog = "toxicity" /\ TopRole(Me) <= TopRole(user))
    \/ (~ignore_hierarchy /\ TopRole(author) < TopRole(user))
    \/ (cog = "toxic" /\ user \notin Moderators)

\* ToxicView.start of src/toxic: the vote message with its button is sent
ToxicView_start == "waiting"

\* ToxicityView.start: generate_content uses cf, which views.py does not import
ToxicityView_start == "NameError"

\* the command is sent: the framework turns it away while another invocation of the
\* guild is running, otherwise the coroutine starts and reads the settings
toxicity(c, author, user, h) ==
    /\ commands[c].pc = "idle"
    /\ \A d \in CommandIds : d < c => commands[d].pc # "idle"
    /\ commands' = [commands EXCEPT ![c] =
                       [pc |-> IF MaxConcurrencyReached THEN "MaxConcurrencyReached"
                               ELSE "settings",
                        author |-> author, user |-> user, ignore_hierarchy |-> h]]
    /\ UNCHANGED <<toxic_vars, view, join_vars>>

\* the settings are there: the checks, then the view is constructed and started
toxicity_start(c) ==
    /\ commands[c].pc = "settings"
    /\ LET r == commands[c]
       IN  commands' = [commands EXCEPT ![c].pc =
                           IF CommandRefused(r.author, r.user, r.ignore_hierarchy)
                           THEN "refused"
                           ELSE IF cog = "toxic" THEN ToxicView_start
                           ELSE ToxicityView_start]
    /\ UNCHANGED <<toxic_vars, view, join_vars>>

\* await view.wait() returns: the view has timed out or was stopped
view_wait(c) ==
    /\ commands[c].pc = "waiting"
    /\ commands' = [commands EXCEPT ![c].pc = "done"]
    /\ UNCHANGED <<toxic_vars, view, join_vars>>

CommandInit ==
    /\ cog \in Cogs
    /\ RegistryIdle
    /\ view = NoView
    /\ JoinIdle
    /\ commands = [c \in CommandIds |-> NoRun]

CommandNext ==
    \/ \E c \in CommandIds, a \in Humans, u \in Accounts, h \in BOOLEAN : toxicity(c, a, u, h)
    \/ \E c \in CommandIds : toxicity_start(c)
    \/ \E c \in CommandIds : view_wait(c)

CommandSpec == CommandInit /\ [][CommandNext]_vars

EntryOf(av, vd, g, m) ==
    IF av[g][m] = 0 THEN [present |-> FALSE]
    ELSE [present |-> TRUE, vote |-> av[g][m],
          voters |-> vd[av[g][m]].voters, processed |-> vd[av[g][m]].processed,
          votes_needed |-> vd[av[g][m]].votes_needed, ban_mode |-> vd[av[g][m]].ban_mode,
          anonvote |-> vd[av[g][m]].anonvote]

\* the step belongs to a timer, a resolution, a reaction handler or a cancel command
\* that works on the session of member m
ActsOn(m) ==
    \/ \E t \in TaskIds : task'[t] # task[t] /\ m \in {task[t].member, task'[t].member}
    \/ \E c \in CancelIds :
          cancels'[c] # cancels[c] /\ m \in {cancels[c].member, cancels'[c].member}

tick ==
    /\ clock < MaxClock
    /\ clock' = clock + 1
    /\ UNCHANGED <<cog, config, active_votes, vote_data, message, msg_guild, reactions, inv,
                   task, cancels, hist, last, events, _is_loaded, button_vars, join_vars>>

\* the time arguments given to toxic config duration
ListTimes == {<<"3", "0">>}

ListInit == Init /\ cog = "toxic"

ListNext ==
    \/ \E k \in Sids, g \in Guilds, a \in Users, m \in Users : vote_member(k, g, a, m)
    \/ \E k \in Sids : vote_member_store(k)
    \/ \E c \in CancelIds, g \in Guilds, a \in Users, m \in Users : cancel_vote(c, g, a, m)
    \/ \E c \in CancelIds, ok \in BOOLEAN : cancel_vote_delete(c, ok)
    \/ \E g \in Guilds, time \in ListTimes : set_vote_duration(g, time)
    \/ \E g \in Guilds : list_active_votes(g)
    \/ tick

ListSpec == ListInit /\ [][ListNext]_vars

cog_unload ==
    /\ cog = "toxic"
    /\ _is_loaded
    /\ Event
    /\ _is_loaded' = FALSE
    /\ active_votes' = [g \in Guilds |-> [m \in Members |-> 0]]
    /\ UNCHANGED <<cog, config, vote_data, message, msg_guild, reactions, inv, task, cancels,
                   hist, last, clock, button_vars, join_vars>>

UnloadInit == Init /\ cog = "toxic"

\* the framework hands a command to the cog only while the cog is loaded
loaded_vote_member(k, g, a, m) == _is_loaded /\ vote_member(k, g, a, m)

loaded_cancel_vote(c, g, a, m) == _is_loaded /\ cancel_vote(c, g, a, m)

\* once the cog is unloaded the framework sends it no command; reactions still
\* arrive at a listener that has not been taken off yet
UnloadNext ==
    \/ \E k \in Sids, g \in Guilds, a \in Users, m \in Users : loaded_vote_member(k, g, a, m)
    \/ \E k \in Sids : vote_member_store(k)
    \/ \E i \in 1..MaxReacts, s \in Sids, u \in Users, e \in Emojis : user_adds_reaction(i, s, u, e)
    \/ \E t \in EventIds : on_reaction_add(t)
    \/ \E t \in EventIds, ok \in BOOLEAN : on_reaction_add_removed(t, ok)
    \/ \E t \in EventIds, kept \in SUBSET Emojis, f \in {"ok", "error"} :
          on_reaction_add_threshold(t, kept, f)
    \/ \E t \in TimerIds : _handle_vote_timer(t)
    \/ \E t \in EventIds : _process_vote_result(t)
    \/ \E t \in TaskIds, f \in {"ok", "error"} : _process_vote_result_count(t, f)
    \/ \E t \in TaskIds, res \in {"done", "forbidden", "error"} : _process_vote_result_acted(t, res)
    \/ \E t \in TaskIds, ok \in BOOLEAN : _process_vote_result_cleanup(t, ok)
    \/ \E c \in CancelIds, g \in Guilds, a \in Users, m \in Users : loaded_cancel_vote(c, g, a, m)
    \/ \E c \in CancelIds, ok \in BOOLEAN : cancel_vote_delete(c, ok)
    \/ cog_unload

UnloadSpec == UnloadInit /\ [][UnloadNext]_vars

\* C29: unload safety of the Toxic cog: after cog_unload, active_votes is empty,
\* reaction events are ignored (no ballot is recorded), and no timer task that wakes
\* up after the unload invokes a kick/ban or publishes a result.
C29_UnloadSafety ==
    /\ [](~_is_loaded => \A g \in Guilds, m \in Members : active_votes[g][m] = 0)
    /\ [][~_is_loaded =>
             \A s \in Sids :
                /\ vote_data'[s].voters = vote_data[s].voters
                /\ hist'[s].punished = hist[s].punished
                /\ hist'[s].summaries = hist[s].summaries]_vars

\* ---- JoinRole.on_member_join (src/autojoinmod/joinrole.py) ----
\* The guild is configured and the bot has its permissions. What the member selects
\* in a view, and whether a call to Discord returns, raises Forbidden or raises
\* something else, is the environment's choice.

Outcomes == {"ok", "Forbidden", "error"}

\* a variant that leaves the entry where it is
Removed_never(m) == active_channels

\* if member.id in self.active_channels: del self.active_channels[member.id]
Removed(m) == [active_channels EXCEPT ![m] = 0]

\* how a run goes on when an awaited call inside the try block has returned
\* (next: the state after a normal return, left: how the run ends if that is its end)
AfterCall(j, res, next, left) ==
    LET r == joins[j]
    IN  IF res = "ok"
        THEN /\ joins' = [joins EXCEPT ![j].pc = next, ![j].exit = left]
             /\ active_channels' = IF next = "deleting" THEN Removed(r.member)
                                   ELSE active_channels
        ELSE IF res = "Forbidden"
        THEN /\ joins' = [joins EXCEPT ![j].pc = "done", ![j].exit = "Forbidden"]
             /\ active_channels' = Removed(r.member)
        ELSE /\ joins' = [joins EXCEPT ![j].pc = "apologizing", ![j].exit = "error"]
             /\ active_channels' = Removed(r.member)

\* a member joins the guild: the listener starts and reads the settings
on_member_join(j, m) ==
    /\ joins[j].pc = "idle"
    /\ \A i \in JoinIds : i < j => joins[i].pc # "idle"
    /\ joins' = [joins EXCEPT ![j] = [NoJoin EXCEPT !.pc = "settings", !.member = m]]
    /\ UNCHANGED <<toxic_vars, button_vars, active_channels>>

\* the settings are there: a member who is in active_channels is skipped, for
\* another one the temporary channel is requested
on_member_join_check(j) ==
    LET r == joins[j]
    IN  /\ r.pc = "settings"
        /\ joins' = [joins EXCEPT ![j] =
                        IF active_channels[r.member] # 0
                        THEN [r EXCEPT !.pc = "done", !.exit = "skipped"]
                        ELSE [r EXCEPT !.pc = "creating",
                                       !.rejoin = \E i \in JoinIds :
                                                     /\ joins[i].member = r.member
                                                     /\ joins[i].pc = "done"
                                                     /\ joins[i].temp_channel # 0]]
        /\ UNCHANGED <<toxic_vars, button_vars, active_channels>>

\* create_text_channel returns: the member is entered in active_channels; if it
\* raises, temp_channel is None and there is nothing to take out
on_member_join_created(j, res) ==
    LET r == joins[j]
    IN  /\ r.pc = "creating"
        /\ IF res = "ok"
           THEN /\ joins' = [joins EXCEPT ![j].pc = "sending", ![j].temp_channel = j]
                /\ active_channels' = [active_channels EXCEPT ![r.member] = j]
           ELSE /\ joins' = [joins EXCEPT ![j].pc = "done", ![j].exit = res]
                /\ UNCHANGED active_channels
        /\ UNCHANGED <<toxic_vars, button_vars>>

\* the message with the purpose buttons is sent
on_member_join_sent(j, res) ==
    /\ joins[j].pc = "sending"
    /\ AfterCall(j, res, "waiting", "none")
    /\ UNCHANGED <<toxic_vars, button_vars>>

\* purpose_view.wait() returns: the member has selected a purpose, or the view has
\* timed out and its on_timeout runs as a task of its own
on_member_join_waited(j, selected) ==
    /\ joins[j].pc = "waiting"
    /\ joins' = [joins EXCEPT ![j].pc = IF selected THEN "enrolling" ELSE "notice",
                              ![j].on_timeout = IF selected THEN "none" ELSE "pending"]
    /\ UNCHANGED <<toxic_vars, button_vars, active_channels>>

\* PurposeSelectionView.on_timeout: the message is edited, then
\* _cleanup_and_delete_channel; if the edit raises, nothing more
PurposeSelectionView_on_timeout(j, ok) ==
    /\ joins[j].on_timeout = "pending"
    /\ joins' = [joins EXCEPT ![j].on_timeout = "done"]
    /\ active_channels' = IF ok THEN Removed(joins[j].member) ELSE active_channels
    /\ UNCHANGED <<toxic_vars, button_vars>>

\* "No purpose selected" is sent, then _cleanup_and_delete_channel
on_member_join_notice(j, res) ==
    /\ joins[j].pc = "notice"
    /\ AfterCall(j, res, "deleting", "timeout")
    /\ UNCHANGED <<toxic_vars, button_vars>>

\* the roles are given and the closing message is sent, then
\* _cleanup_and_delete_channel
on_member_join_enrolled(j, res) ==
    /\ joins[j].pc = "enrolling"
    /\ AfterCall(j, res, "deleting", "completed")
    /\ UNCHANGED <<toxic_vars, button_vars>>

\* channel.delete() of _cleanup_and_delete_channel returns or raises (caught)
_cleanup_and_delete_channel(j) ==
    /\ joins[j].pc = "deleting"
    /\ joins' = [joins EXCEPT ![j].pc = "done"]
    /\ UNCHANGED <<toxic_vars, button_vars, active_channels>>

\* the last calls of the handler of any other exception return or raise (caught)
on_member_join_failed(j) ==
    /\ joins[j].pc = "apologizing"
    /\ joins' = [joins EXCEPT ![j].pc = "done"]
    /\ UNCHANGED <<toxic_vars, button_vars, active_channels>>

JoinInit ==
    /\ ToxicIdle
    /\ view = NoView
    /\ commands = [c \in CommandIds |-> NoRun]
    /\ JoinIdle

\* what run j does next once it has started
RunStep(j) ==
    \/ on_member_join_check(j)
    \/ \E res \in Outcomes : on_member_join_created(j, res)
    \/ \E res \in Outcomes : on_member_join_sent(j, res)
    \/ \E selected \in BOOLEAN : on_member_join_waited(j, selected)
    \/ \E ok \in BOOLEAN : PurposeSelectionView_on_timeout(j, ok)
    \/ \E res \in Outcomes : on_member_join_notice(j, res)
    \/ \E res \in Outcomes : on_member_join_enrolled(j, res)
    \/ _cleanup_and_delete_channel(j)
    \/ on_member_join_failed(j)

JoinNext ==
    \/ \E j \in JoinIds, m \in Joiners : on_member_join(j, m)
    \/ \E j \in JoinIds : RunStep(j)

\* every awaited call returns or raises and every view stops or times out (300 s),
\* and the event loop resumes the coroutine that waits for it
JoinSpec == JoinInit /\ [][JoinNext]_vars /\ \A j \in JoinIds : WF_vars(RunStep(j))

\* C30: enrollment tracking does not leak: every run of on_member_join that enters
\* the member in active_channels takes the entry out again on each of its ways out
\* (enrollment completed, purpose-selection timeout, Forbidden, any other error),
\* so that a member who rejoins later is not skipped.
C30_NoLeak ==
    /\ \A m \in Joiners : (active_channels[m] # 0) ~> (active_channels[m] = 0)
    /\ [](\A m \in Joiners :
            (\A j \in JoinIds : joins[j].member = m => joins[j].pc = "done")
            => active_channels[m] = 0)
    /\ [][\A j \in JoinIds :
             (joins[j].exit # "skipped" /\ joins'[j].exit = "skipped")
             => \E i \in JoinIds \ {j} : /\ joins[i].member = joins[j].member
                                          /\ joins[i].pc \notin {"idle", "done"}]_vars

\* a member whose first enrollment had entered them and was over has joined again
\* and has been entered again
C30_Witness ==
    \E j \in JoinIds :
       /\ joins[j].rejoin
       /\ joins[j].temp_channel # 0
       /\ active_channels[joins[j].member] = j

====
